---- MODULE Spec2Model ----
(***************************************************************************)
(* Worker-session management of dhmcp: the configuration loader of         *)
(* src/src/dhmcp/_config.py and the session cache of                        *)
(* src/src/dhmcp/_sessions.py, run by several threads of one process.       *)
(***************************************************************************)
EXTENDS Integers, Sequences, FiniteSets, TLC

(***************************************************************************)
(* Bounds of the model.                                                    *)
(***************************************************************************)
\* the calls of a run; each is made by its own thread
NumCallers == 3

Threads == 1..NumCallers

(***************************************************************************)
(* Python / JSON values.  A value carries its kind, so that isinstance,    *)
(* truthiness and hashability are decided as Python decides them.          *)
(***************************************************************************)
PyNone == [k |-> "null"]
PyStr(s) == [k |-> "str", v |-> s]
PyInt(n) == [k |-> "int", v |-> n]
PyBool(b) == [k |-> "bool", v |-> b]
PyList(s) == [k |-> "arr", v |-> s]
PyDict(f) == [k |-> "obj", v |-> f]

EmptyMap == [x \in {} |-> PyNone]

IsNone(x) == x.k = "null"
IsDict(x) == x.k = "obj"

\* bool(x): None, "", 0, False, {} and [] are falsy
Truthy(x) ==
  CASE x.k = "null" -> FALSE
    [] x.k = "str" -> x.v # ""
    [] x.k = "int" -> x.v # 0
    [] x.k = "bool" -> x.v
    [] x.k = "arr" -> Len(x.v) # 0
    [] x.k = "obj" -> DOMAIN x.v # {}

\* a or b
PyOr(a, b) == IF Truthy(a) THEN a ELSE b

\* d.get(key), with None for a missing key
DictGet(d, key) == IF key \in DOMAIN d.v THEN d.v[key] ELSE PyNone

\* d.get(key, dflt)
DictGetOr(d, key, dflt) == IF key \in DOMAIN d.v THEN d.v[key] ELSE dflt

\* lists and dicts are unhashable: using one as a dict key raises TypeError
Hashable(x) == x.k \notin {"arr", "obj"}

\* key in d, for a hashable key: the keys of a JSON object are strings
KeyIn(x, d) == x.k = "str" /\ x.v \in DOMAIN d.v

(***************************************************************************)
(* _config.py: the schema.                                                 *)
(***************************************************************************)
allowed_config_keys == {"workers", "default_worker"}

\* field name -> the kinds isinstance accepts (bool is a subclass of int)
_ALLOWED_WORKER_FIELDS ==
  [host |-> {"str"},
   port |-> {"int", "bool"},
   auth_type |-> {"str"},
   auth_token |-> {"str"},
   never_timeout |-> {"bool"},
   session_type |-> {"str"},
   use_tls |-> {"bool"},
   tls_root_certs |-> {"str", "null"},
   client_cert_chain |-> {"str", "null"},
   client_private_key |-> {"str", "null"}]

_REQUIRED_FIELDS == {}

\* the per-worker checks of the validation loop; "" when the entry passes
WorkerError(worker_cfg) ==
  IF ~IsDict(worker_cfg) THEN "ValueError"
  ELSE IF \E field \in DOMAIN worker_cfg.v : field \notin DOMAIN _ALLOWED_WORKER_FIELDS
       THEN "ValueError"
  ELSE IF \E req \in _REQUIRED_FIELDS : req \notin DOMAIN worker_cfg.v
       THEN "ValueError"
  ELSE IF \E field \in DOMAIN worker_cfg.v :
            worker_cfg.v[field].k \notin _ALLOWED_WORKER_FIELDS[field]
       THEN "ValueError"
  ELSE ""

\* ValidateConfig without the default_worker test of lines 105-109
ValidateConfigAnyDefault(config) ==
  IF ~IsDict(config) THEN "ValueError"
  ELSE IF \E key \in DOMAIN config.v : key \notin allowed_config_keys THEN "ValueError"
  ELSE LET workers == DictGet(config, "workers") IN
    IF ~IsDict(workers) \/ ~Truthy(workers) THEN "ValueError"
    ELSE IF \E key \in DOMAIN workers.v : WorkerError(workers.v[key]) # ""
         THEN "ValueError"
    ELSE ""

\* the validation of a parsed document, in the order of the code; "" when valid
ValidateConfig(config) ==
  IF ~IsDict(config) THEN "ValueError"
  ELSE IF \E key \in DOMAIN config.v : key \notin allowed_config_keys THEN "ValueError"
  ELSE LET workers == DictGet(config, "workers") IN
    IF ~IsDict(workers) \/ ~Truthy(workers) THEN "ValueError"
    ELSE LET default_worker == DictGet(config, "default_worker") IN
      IF ~IsNone(default_worker) /\ ~Hashable(default_worker) THEN "TypeError"
      ELSE IF ~IsNone(default_worker) /\ ~KeyIn(default_worker, workers) THEN "ValueError"
      ELSE IF \E key \in DOMAIN workers.v : WorkerError(workers.v[key]) # ""
           THEN "ValueError"
      ELSE ""

(***************************************************************************)
(* The environment: configuration documents the source (the file named by  *)
(* DH_MCP_CONFIG_FILE) may hold, and certificate files.                     *)
(***************************************************************************)
\* DH_MCP_CONFIG_FILE is not set (or is empty)
SourceUnset == [k |-> "unset"]
\* the file cannot be opened, or json.load fails on it
SourceUnreadable == [k |-> "unreadable"]

W1Plain == PyDict([host |-> PyStr("h"), port |-> PyInt(1000)])
W1Tls == PyDict([host |-> PyStr("h"), port |-> PyInt(1000), auth_token |-> PyStr("tok"),
                 use_tls |-> PyBool(TRUE), tls_root_certs |-> PyStr("/ca.pem"),
                 client_private_key |-> PyStr("/key.pem")])
W2Plain == PyDict([host |-> PyStr("h2")])

\* the end-to-end configuration of the specification
DocDefault == PyDict([workers |-> PyDict([w1 |-> W1Plain]), default_worker |-> PyStr("w1")])
\* two workers, one of them named like the cache's sentinel, TLS material on w1
DocTls ==
  PyDict([workers |-> PyDict(("w1" :> W1Tls) @@ ("__default__" :> W2Plain)),
          default_worker |-> PyStr("w1")])
\* no default worker
DocNoDefault == PyDict([workers |-> PyDict([w1 |-> W1Plain])])
\* fails validation: empty workers
DocEmptyWorkers == PyDict([workers |-> PyDict(EmptyMap)])

SessionSources == {DocTls, DocNoDefault, DocEmptyWorkers}

\* a worker with a certificate path, a null certificate field and an empty one
W1Certs == PyDict([host |-> PyStr("h"), auth_type |-> PyStr("token"),
                   auth_token |-> PyStr("tok"), never_timeout |-> PyBool(TRUE),
                   tls_root_certs |-> PyStr("/ca.pem"), client_cert_chain |-> PyNone,
                   client_private_key |-> PyStr("")])
DocCerts == PyDict([workers |-> PyDict([w1 |-> W1Certs]), default_worker |-> PyStr("w1")])

\* a worker whose name is the empty string, beside the default worker w1
DocEmptyName ==
  PyDict([workers |-> PyDict(("" :> PyDict([host |-> PyStr("e")])) @@ ("w1" :> W1Plain)),
          default_worker |-> PyStr("w1")])
\* the default worker is the one named like the cache's sentinel
DocSentinelDefault ==
  PyDict([workers |-> PyDict(("__default__" :> W2Plain) @@ ("w1" :> W1Plain)),
          default_worker |-> PyStr("__default__")])

\* the configurations of the runs on worker names that meet the cache's sentinel
SentinelSourceSets == {{DocTls}, {DocEmptyName}, {DocSentinelDefault}}

\* the configurations of the runs that build sessions of the default worker
BuildSourceSets == {{DocDefault}, {DocTls}, {DocCerts}}

(***************************************************************************)
(* Documents for the loader: every shape the validation tells apart.       *)
(***************************************************************************)
\* a document given as its optional top-level members; "absent" leaves one out
Absent == [k |-> "absent"]

MakeDoc(workers, default_worker, extra) ==
  PyDict([key \in (IF workers.k # "absent" THEN {"workers"} ELSE {})
                  \cup (IF default_worker.k # "absent" THEN {"default_worker"} ELSE {})
                  \cup (IF extra.k # "absent" THEN {"extra"} ELSE {}) |->
            CASE key = "workers" -> workers
              [] key = "default_worker" -> default_worker
              [] key = "extra" -> extra])

\* one value of each JSON kind
KindSamples ==
  {PyStr("s"), PyInt(1), PyBool(TRUE), PyNone, PyDict(EmptyMap), PyList(<< >>)}

WorkerFieldNames == DOMAIN _ALLOWED_WORKER_FIELDS \cup {"unknown"}

\* the values of "workers" that differ in structure
StructuralWorkers ==
  {Absent, PyNone, PyList(<< >>), PyStr("a"), PyDict(EmptyMap),
   PyDict([a |-> PyDict(EmptyMap)]),
   PyDict([a |-> PyInt(5)]),
   PyDict([a |-> PyDict([unknown |-> PyInt(1)])]),
   PyDict([a |-> PyDict([host |-> PyStr("h"), port |-> PyInt(1000)])]),
   PyDict([a |-> PyDict(EmptyMap), b |-> PyList(<< >>)])}

DefaultChoices ==
  {Absent, PyNone, PyStr("a"), PyStr("zz"), PyInt(1), PyList(<< >>), PyDict(EmptyMap)}

StructuralDocs ==
  {MakeDoc(w, d, x) : w \in StructuralWorkers, d \in DefaultChoices,
                      x \in {Absent, PyInt(1)}}

\* one worker with one field, of every name and kind
TypedDocs ==
  {MakeDoc(PyDict([a |-> PyDict([f \in {field} |-> value])]), Absent, Absent) :
     field \in WorkerFieldNames, value \in KindSamples}

\* a top level that is no object
NonDictDocs == {PyList(<< >>), PyStr("workers"), PyNone}

ConfigDocs == StructuralDocs \cup TypedDocs \cup NonDictDocs

\* the minimal configuration of the specification
DocMinimal == MakeDoc(PyDict([a |-> PyDict(EmptyMap)]), Absent, Absent)

\* what the file holds during one run of the loader
ConfigSourceSets ==
  {{d} : d \in ConfigDocs} \cup {{SourceUnset, SourceUnreadable, DocMinimal}}

\* worker_name values callers pass to get_worker_config
ConfigNames == {PyNone, PyStr("a"), PyStr("zz"), PyStr("")}

CertPaths == {"/ca.pem", "/key.pem"}

\* the bytes a readable certificate file holds
FileBytes(path) == [k |-> "bytes", v |-> path]

\* worker_name values callers pass
WorkerNames == {PyNone, PyStr("w1"), PyStr("__default__"), PyStr("zz")}

(***************************************************************************)
(* _sessions.py: the cache key of a call (lines 49-50).                    *)
(***************************************************************************)
CacheKey(worker_name) ==
  LET resolved_worker == PyOr(worker_name, PyNone)
  IN  PyOr(resolved_worker, PyStr("__default__")).v

CacheKeys == {CacheKey(a) : a \in WorkerNames}

\* _SESSION_CACHE.get(key) is None
NoSession == 0
\* _SESSION_CACHE_LOCK is free
Unlocked == 0

\* no call has returned yet
NoResult == [kind |-> "none"]

\* get_session returned a session: the cached one (line 59) or a new one (line 135)
SessionKinds == {"session_cached", "session_created"}

VARIABLES
  pc,           \* where each thread is in its call
  op,           \* the operation a thread runs
  arg,          \* its worker_name argument
  session,      \* get_session's local: the handle found in the cache
  config,       \* _load_config's local: the parsed document
  cfg,          \* get_session's local: the resolved worker's config
  last,         \* the call that ended last, and what it returned or raised
  lock,         \* _SESSION_CACHE_LOCK: the thread holding it
  cache,        \* _SESSION_CACHE: key -> handle
  handles,      \* every Session ever opened, in order
  configCache,  \* _CONFIG_CACHE
  sources,      \* what DH_MCP_CONFIG_FILE may point at during the run
  installs,     \* assignments to _CONFIG_CACHE so far
  first,        \* the first value assigned to _CONFIG_CACHE
  log           \* the messages logged by the latest session build

vars == <<pc, op, arg, session, config, cfg, last, lock, cache, handles,
          configCache, sources, installs, first, log>>

\* a thread's frame, apart from pc
frame == <<op, arg, session, config, cfg>>
\* the configuration cache and its history
configState == <<configCache, installs, first>>

Init ==
  /\ pc = [t \in Threads |-> "new"]
  /\ op = [t \in Threads |-> "none"]
  /\ arg = [t \in Threads |-> PyNone]
  /\ session = [t \in Threads |-> NoSession]
  /\ config = [t \in Threads |-> PyNone]
  /\ cfg = [t \in Threads |-> PyNone]
  /\ last = NoResult
  /\ lock = Unlocked
  /\ cache = [key \in CacheKeys |-> NoSession]
  /\ handles = << >>
  /\ configCache = PyNone
  /\ sources = SessionSources
  /\ installs = 0
  /\ first = PyNone
  /\ log = << >>

(***************************************************************************)
(* Leaving a call, by return or by exception.  Both leave the              *)
(* `with _SESSION_CACHE_LOCK` block, which releases the lock if the thread *)
(* holds it, and drop the frame.                                           *)
(***************************************************************************)
\* Release that keeps the lock: leaving the call does not free it
ReleaseNever(t) == lock

Release(t) == IF lock = t THEN Unlocked ELSE lock

Return(t, kind, val) ==
  /\ last' = [op |-> op[t], arg |-> arg[t], kind |-> kind, val |-> val]
  /\ pc' = [pc EXCEPT ![t] = "done"]
  /\ lock' = Release(t)
  /\ op' = [op EXCEPT ![t] = "none"]
  /\ arg' = [arg EXCEPT ![t] = PyNone]
  /\ session' = [session EXCEPT ![t] = NoSession]
  /\ config' = [config EXCEPT ![t] = PyNone]
  /\ cfg' = [cfg EXCEPT ![t] = PyNone]

Raise(t, err) == Return(t, "error", err)

\* the thread moves on inside its call
Goto(t, label) ==
  /\ pc' = [pc EXCEPT ![t] = label]
  /\ UNCHANGED <<last, lock>>

(***************************************************************************)
(* A thread starts a call.  Threads are interchangeable, so they start in  *)
(* the order of their numbers.                                             *)
(***************************************************************************)
Call(t, o, a) ==
  /\ pc[t] = "new"
  /\ \A u \in Threads : u < t => pc[u] # "new"
  /\ op' = [op EXCEPT ![t] = o]
  /\ arg' = [arg EXCEPT ![t] = a]
  /\ Goto(t, IF o = "get_session" THEN "lock" ELSE "load_check")
  /\ UNCHANGED <<session, config, cfg, cache, handles, configState, sources, log>>

CallGetSession(t) == \E a \in WorkerNames : Call(t, "get_session", a)
\* get_session(""): the empty string given as the name
CallGetSessionEmpty(t) == Call(t, "get_session", PyStr(""))
CallGetWorkerConfig(t) == \E a \in ConfigNames : Call(t, "get_worker_config", a)
CallWorkerNames(t) == Call(t, "deephaven_worker_names", PyNone)
CallDefaultWorker(t) == Call(t, "deephaven_default_worker", PyNone)

\* Acquire with a lock per key: only calls on the same key exclude each other
AcquirePerKey(t) ==
  /\ pc[t] = "lock"
  /\ \A u \in Threads :
       (op[u] = "get_session" /\ pc[u] \notin {"new", "lock", "done"}) =>
         CacheKey(arg[u]) # CacheKey(arg[t])
  /\ lock' = t
  /\ session' = [session EXCEPT ![t] = cache[CacheKey(arg[t])]]
  /\ pc' = [pc EXCEPT ![t] =
              IF cache[CacheKey(arg[t])] = NoSession THEN "load_check" ELSE "probe"]
  /\ UNCHANGED <<op, arg, config, cfg, last, cache, handles, configState, sources, log>>

\* Acquire without the lock: the lookup is not serialized
AcquireUnlocked(t) ==
  /\ pc[t] = "lock"
  /\ lock' = t
  /\ session' = [session EXCEPT ![t] = cache[CacheKey(arg[t])]]
  /\ pc' = [pc EXCEPT ![t] =
              IF cache[CacheKey(arg[t])] = NoSession THEN "load_check" ELSE "probe"]
  /\ UNCHANGED <<op, arg, config, cfg, last, cache, handles, configState, sources, log>>

(***************************************************************************)
(* get_session, lines 53-54: enter the lock and look the key up.           *)
(***************************************************************************)
Acquire(t) ==
  /\ pc[t] = "lock"
  /\ lock = Unlocked
  /\ lock' = t
  /\ session' = [session EXCEPT ![t] = cache[CacheKey(arg[t])]]
  /\ pc' = [pc EXCEPT ![t] =
              IF cache[CacheKey(arg[t])] = NoSession THEN "load_check" ELSE "probe"]
  /\ UNCHANGED <<op, arg, config, cfg, last, cache, handles, configState, sources, log>>

(***************************************************************************)
(* get_session, lines 55-63: session.is_alive().  True returns the cached  *)
(* session; False, or an exception, falls through to the rebuild.          *)
(***************************************************************************)
\* what is_alive() can do on a session in this status
ProbeOutcomes(status) == IF status = "alive" THEN {"True"} ELSE {"False", "raise"}

\* AfterProbe never reusing: the cached session is rebuilt whatever is_alive() says
AfterProbeNoReuse(outcome) == "recreate"

\* AfterProbe without the try/except: an exception of is_alive() leaves get_session
AfterProbeUncaught(outcome) ==
  CASE outcome = "True" -> "return"
    [] outcome = "False" -> "recreate"
    [] outcome = "raise" -> "propagate"

\* lines 56-63: `if session.is_alive(): return session`, inside try/except Exception
AfterProbe(outcome) ==
  CASE outcome = "True" -> "return"
    [] outcome = "False" -> "recreate"
    [] outcome = "raise" -> "recreate"

\* a session found not alive is marked stale (its status is not read by the code)
Probed(h, outcome) ==
  IF outcome = "True" THEN handles ELSE [handles EXCEPT ![h].status = "stale"]

Probe(t) ==
  /\ pc[t] = "probe"
  /\ \E outcome \in ProbeOutcomes(handles[session[t]].status) :
       /\ handles' = Probed(session[t], outcome)
       /\ CASE AfterProbe(outcome) = "return" -> Return(t, "session_cached", session[t])
            [] AfterProbe(outcome) = "recreate" -> Goto(t, "load_check") /\ UNCHANGED frame
            [] AfterProbe(outcome) = "propagate" -> Raise(t, "Exception:is_alive")
  /\ UNCHANGED <<cache, configState, sources, log>>

\* LoadCheck without the cache test: every call reads the source
LoadCheckNoCache(t) ==
  /\ pc[t] = "load_check"
  /\ Goto(t, "load_read")
  /\ UNCHANGED <<frame, cache, handles, configState, sources, log>>

(***************************************************************************)
(* _load_config, lines 71-73: the cache test.                              *)
(***************************************************************************)
LoadCheck(t) ==
  /\ pc[t] = "load_check"
  /\ Goto(t, IF ~IsNone(configCache) THEN "load_ret" ELSE "load_read")
  /\ UNCHANGED <<frame, cache, handles, configState, sources, log>>

(***************************************************************************)
(* _load_config, lines 76-87: read the pointer, open and parse the file.   *)
(* The file is outside the program: each read finds one of the sources.    *)
(***************************************************************************)
LoadRead(t) ==
  /\ pc[t] = "load_read"
  /\ \E source \in sources :
       IF source.k \in {"unset", "unreadable"}
       THEN Raise(t, "RuntimeError:source")
       ELSE /\ config' = [config EXCEPT ![t] = source]
            /\ Goto(t, "load_install")
            /\ UNCHANGED <<op, arg, session, cfg>>
  /\ UNCHANGED <<cache, handles, configState, sources, log>>

\* LoadInstall assigning _CONFIG_CACHE before it validates
LoadInstallCachesFirst(t) ==
  /\ pc[t] = "load_install"
  /\ configCache' = config[t]
  /\ installs' = installs + 1
  /\ first' = IF installs = 0 THEN config[t] ELSE first
  /\ IF ValidateConfig(config[t]) # ""
     THEN Raise(t, ValidateConfig(config[t]))
     ELSE /\ config' = [config EXCEPT ![t] = PyNone]
          /\ Goto(t, "load_ret")
          /\ UNCHANGED <<op, arg, session, cfg>>
  /\ UNCHANGED <<cache, handles, sources, log>>

(***************************************************************************)
(* _load_config, lines 91-136: validate, then assign _CONFIG_CACHE.        *)
(***************************************************************************)
LoadInstall(t) ==
  /\ pc[t] = "load_install"
  /\ IF ValidateConfig(config[t]) # ""
     THEN /\ Raise(t, ValidateConfig(config[t]))
          /\ UNCHANGED configState
     ELSE /\ configCache' = config[t]
          /\ installs' = installs + 1
          /\ first' = IF installs = 0 THEN config[t] ELSE first
          /\ config' = [config EXCEPT ![t] = PyNone]
          /\ Goto(t, "load_ret")
          /\ UNCHANGED <<op, arg, session, cfg>>
  /\ UNCHANGED <<cache, handles, sources, log>>

\* get_worker_config without the default: only the argument names the worker
get_worker_configNoDefault(registry, worker_name) ==
  LET workers == DictGetOr(registry, "workers", PyDict(EmptyMap))
      resolved_worker == worker_name
  IN  IF ~Truthy(workers) \/ ~IsDict(workers)
        THEN [k |-> "error", v |-> "RuntimeError:workers"]
      ELSE IF ~Truthy(resolved_worker)
        THEN [k |-> "error", v |-> "RuntimeError:no_name"]
      ELSE IF ~KeyIn(resolved_worker, workers)
        THEN [k |-> "error", v |-> "RuntimeError:not_found"]
      ELSE workers.v[resolved_worker.v]

(***************************************************************************)
(* get_worker_config, lines 154-169, on the registry _load_config returned.*)
(* An error is a record of kind "error"; otherwise the worker's config.    *)
(***************************************************************************)
get_worker_config(registry, worker_name) ==
  LET workers == DictGetOr(registry, "workers", PyDict(EmptyMap))
      resolved_worker == PyOr(worker_name, DictGet(registry, "default_worker"))
  IN  IF ~Truthy(workers) \/ ~IsDict(workers)
        THEN [k |-> "error", v |-> "RuntimeError:workers"]
      ELSE IF ~Truthy(resolved_worker)
        THEN [k |-> "error", v |-> "RuntimeError:no_name"]
      ELSE IF ~KeyIn(resolved_worker, workers)
        THEN [k |-> "error", v |-> "RuntimeError:not_found"]
      ELSE workers.v[resolved_worker.v]

(***************************************************************************)
(* _load_config, line 73 or 137: return _CONFIG_CACHE, and what the caller *)
(* does with it before its next shared access.                             *)
(***************************************************************************)
LoadReturn(t) ==
  /\ pc[t] = "load_ret"
  /\ CASE op[t] = "deephaven_worker_names" ->
            Return(t, "names", DOMAIN DictGetOr(configCache, "workers", PyDict(EmptyMap)).v)
       [] op[t] = "deephaven_default_worker" ->
            Return(t, "default", DictGet(configCache, "default_worker"))
       [] op[t] = "get_worker_config" ->
            LET w == get_worker_config(configCache, arg[t])
            IN  IF w.k = "error" THEN Raise(t, w.v) ELSE Return(t, "worker", w)
       [] op[t] = "get_session" ->
            LET w == get_worker_config(configCache, arg[t])
            IN  IF w.k = "error" THEN Raise(t, w.v)
                ELSE /\ cfg' = [cfg EXCEPT ![t] = w]
                     /\ Goto(t, "certs")
                     /\ UNCHANGED <<op, arg, session, config>>
  /\ UNCHANGED <<cache, handles, configState, sources, log>>

(***************************************************************************)
(* get_session, lines 67-106: the Session arguments; a certificate field   *)
(* that is truthy is a path, replaced by the bytes of the file.            *)
(***************************************************************************)
CertFields == <<"tls_root_certs", "client_cert_chain", "client_private_key">>

\* _load_bytes raises for the path of this field
CertFails(worker_cfg, field, bad) ==
  LET path == DictGetOr(worker_cfg, field, PyNone)
  IN  Truthy(path) /\ path.v \in bad

\* LoadedCert without the read: the configured value is passed on
LoadedCertKeepsPath(worker_cfg, field) == DictGetOr(worker_cfg, field, PyNone)

\* lines 89-106: a truthy certificate field is replaced by the bytes of its file
LoadedCert(worker_cfg, field) ==
  LET path == DictGetOr(worker_cfg, field, PyNone)
  IN  IF Truthy(path) THEN FileBytes(path.v) ELSE path

SessionKwargs(worker_cfg) ==
  [host |-> DictGetOr(worker_cfg, "host", PyNone),
   port |-> DictGetOr(worker_cfg, "port", PyNone),
   auth_type |-> DictGetOr(worker_cfg, "auth_type", PyNone),
   auth_token |-> DictGetOr(worker_cfg, "auth_token", PyNone),
   never_timeout |-> DictGetOr(worker_cfg, "never_timeout", PyBool(FALSE)),
   session_type |-> DictGetOr(worker_cfg, "session_type", PyStr("python")),
   use_tls |-> DictGetOr(worker_cfg, "use_tls", PyBool(FALSE)),
   tls_root_certs |-> LoadedCert(worker_cfg, "tls_root_certs"),
   client_cert_chain |-> LoadedCert(worker_cfg, "client_cert_chain"),
   client_private_key |-> LoadedCert(worker_cfg, "client_private_key")]

\* a logged message: its fixed text, and the values formatted into it
Msg(text, args) == [text |-> text, args |-> args]

\* lines 79-106: the messages of the certificate fields from the i-th on, up to
\* the first file that cannot be read
RECURSIVE CertLog(_, _, _)
CertLog(worker_cfg, bad, i) ==
  IF i > Len(CertFields) THEN << >>
  ELSE LET path == DictGetOr(worker_cfg, CertFields[i], PyNone)
       IN  IF ~Truthy(path)
             THEN <<Msg("No " \o CertFields[i] \o " provided for session.", << >>)>>
                  \o CertLog(worker_cfg, bad, i + 1)
           ELSE IF path.v \in bad
             THEN <<Msg("Loading " \o CertFields[i] \o " from: {}", <<path>>),
                    Msg("Failed to load certificate/key file: {}: {}",
                        <<path, PyStr("OSError")>>)>>
           ELSE <<Msg("Loading " \o CertFields[i] \o " from: {}", <<path>>),
                  Msg("Loaded " \o CertFields[i] \o " successfully.", << >>)>>
                \o CertLog(worker_cfg, bad, i + 1)

\* log_cfg without the redaction: the resolved configuration as it is
LogCfgUnredacted(worker_cfg) == worker_cfg

\* lines 109-117: the copy of cfg that is logged
log_cfg(worker_cfg) ==
  PyDict([field \in DOMAIN worker_cfg.v |->
            IF field \in {"auth_token", "client_private_key", "client_cert_chain",
                          "tls_root_certs"}
            THEN PyStr("<redacted>")
            ELSE worker_cfg.v[field]])

\* LoadCerts dropping the key's entry when a certificate file cannot be read
LoadCertsEvicts(t) ==
  /\ pc[t] = "certs"
  /\ \E unreadable \in SUBSET CertPaths :
       IF \E i \in 1..Len(CertFields) : CertFails(cfg[t], CertFields[i], unreadable)
       THEN /\ log' = CertLog(cfg[t], unreadable, 1)
            /\ cache' = [cache EXCEPT ![CacheKey(arg[t])] = NoSession]
            /\ Raise(t, "OSError:certificate")
       ELSE /\ log' = CertLog(cfg[t], unreadable, 1)
                        \o <<Msg("Creating Deephaven Session with config: {} (worker cache key: {})",
                                 <<log_cfg(cfg[t]), PyStr(CacheKey(arg[t]))>>)>>
            /\ cache' = cache
            /\ Goto(t, "open") /\ UNCHANGED frame
  /\ UNCHANGED <<handles, configState, sources>>

\* The files are outside the program: each call finds some of them unreadable.
LoadCerts(t) ==
  /\ pc[t] = "certs"
  /\ \E unreadable \in SUBSET CertPaths :
       IF \E i \in 1..Len(CertFields) : CertFails(cfg[t], CertFields[i], unreadable)
       THEN /\ log' = CertLog(cfg[t], unreadable, 1)
            /\ Raise(t, "OSError:certificate")
       ELSE /\ log' = CertLog(cfg[t], unreadable, 1)
                        \o <<Msg("Creating Deephaven Session with config: {} (worker cache key: {})",
                                 <<log_cfg(cfg[t]), PyStr(CacheKey(arg[t]))>>)>>
            /\ Goto(t, "open") /\ UNCHANGED frame
  /\ UNCHANGED <<cache, handles, configState, sources>>

\* lines 132 and 134: the messages after Session(...) returned
CreatedLog(cache_key) ==
  <<Msg("Session created for worker '{}', adding to cache.", <<PyStr(cache_key)>>),
    Msg("Session cached for worker '{}'. Returning session.", <<PyStr(cache_key)>>)>>

\* OpenSession closing the session it replaces
OpenSessionClosesOld(t) ==
  /\ pc[t] = "open"
  /\ handles' = Append(IF session[t] = NoSession THEN handles
                       ELSE [handles EXCEPT ![session[t]].status = "closed"],
                       [key |-> CacheKey(arg[t]),
                        kwargs |-> SessionKwargs(cfg[t]),
                        status |-> "alive"])
  /\ cache' = [cache EXCEPT ![CacheKey(arg[t])] = Len(handles) + 1]
  /\ Return(t, "session_created", Len(handles) + 1)
  /\ log' = log \o CreatedLog(CacheKey(arg[t]))
  /\ UNCHANGED <<configState, sources>>

\* OpenSession storing with setdefault: an entry already there is kept
OpenSessionSetDefault(t) ==
  /\ pc[t] = "open"
  /\ handles' = Append(handles, [key |-> CacheKey(arg[t]),
                                 kwargs |-> SessionKwargs(cfg[t]),
                                 status |-> "alive"])
  /\ cache' = IF cache[CacheKey(arg[t])] = NoSession
              THEN [cache EXCEPT ![CacheKey(arg[t])] = Len(handles) + 1]
              ELSE cache
  /\ Return(t, "session_created", Len(handles) + 1)
  /\ log' = log \o CreatedLog(CacheKey(arg[t]))
  /\ UNCHANGED <<configState, sources>>

(***************************************************************************)
(* get_session, lines 120-135: Session(...) succeeds, and the new session  *)
(* is stored under the key and returned.                                   *)
(***************************************************************************)
OpenSession(t) ==
  /\ pc[t] = "open"
  /\ handles' = Append(handles, [key |-> CacheKey(arg[t]),
                                 kwargs |-> SessionKwargs(cfg[t]),
                                 status |-> "alive"])
  /\ cache' = [cache EXCEPT ![CacheKey(arg[t])] = Len(handles) + 1]
  /\ Return(t, "session_created", Len(handles) + 1)
  /\ log' = log \o CreatedLog(CacheKey(arg[t]))
  /\ UNCHANGED <<configState, sources>>

\* OpenFails retrying: a failed Session(...) sends the call back to the build
OpenFailsRetries(t) ==
  /\ pc[t] = "open"
  /\ Goto(t, "certs")
  /\ UNCHANGED <<frame, cache, handles, configState, sources, log>>

\* OpenFails dropping the key's entry when the build fails
OpenFailsEvicts(t) ==
  /\ pc[t] = "open"
  /\ cache' = [cache EXCEPT ![CacheKey(arg[t])] = NoSession]
  /\ Raise(t, "Exception:session")
  /\ UNCHANGED <<handles, configState, sources, log>>

(***************************************************************************)
(* get_session, line 120: Session(...) raises; the exception leaves the    *)
(* function through the with block.                                        *)
(***************************************************************************)
OpenFails(t) ==
  /\ pc[t] = "open"
  /\ Raise(t, "Exception:session")
  /\ UNCHANGED <<cache, handles, configState, sources, log>>

(***************************************************************************)
(* The environment: an open session stops being usable; from then on       *)
(* is_alive() returns False, or raises.                                    *)
(***************************************************************************)
SessionDies(h) ==
  /\ h \in 1..Len(handles)
  /\ handles[h].status = "alive"
  /\ handles' = [handles EXCEPT ![h].status = "dead"]
  /\ UNCHANGED <<pc, frame, last, lock, cache, configState, sources, log>>

Next ==
  \/ \E t \in Threads :
       \/ CallGetSession(t)
       \/ CallWorkerNames(t)
       \/ Acquire(t)
       \/ Probe(t)
       \/ LoadCheck(t)
       \/ LoadRead(t)
       \/ LoadInstall(t)
       \/ LoadReturn(t)
       \/ LoadCerts(t)
       \/ OpenSession(t)
       \/ OpenFails(t)
  \/ \E h \in Threads : SessionDies(h)

Spec == Init /\ [][Next]_vars

(***************************************************************************)
(* Calls in sequence: a call starts only when no other call is running.    *)
(***************************************************************************)
NoCallRunning == \A u \in Threads : pc[u] \in {"new", "done"}

SeqNext ==
  \/ \E t \in Threads :
       \/ NoCallRunning /\ CallGetSession(t)
       \/ NoCallRunning /\ CallWorkerNames(t)
       \/ Acquire(t)
       \/ Probe(t)
       \/ LoadCheck(t)
       \/ LoadRead(t)
       \/ LoadInstall(t)
       \/ LoadReturn(t)
       \/ LoadCerts(t)
       \/ OpenSession(t)
       \/ OpenFails(t)
  \/ \E h \in Threads : SessionDies(h)

SeqSpec == Init /\ [][SeqNext]_vars

(***************************************************************************)
(* The loader alone, on one document per run: the callers of               *)
(* deephaven_default_worker.                                               *)
(***************************************************************************)
LoaderInit(sourceSets) ==
  /\ pc = [t \in Threads |-> "new"]
  /\ op = [t \in Threads |-> "none"]
  /\ arg = [t \in Threads |-> PyNone]
  /\ session = [t \in Threads |-> NoSession]
  /\ config = [t \in Threads |-> PyNone]
  /\ cfg = [t \in Threads |-> PyNone]
  /\ last = NoResult
  /\ lock = Unlocked
  /\ cache = [key \in CacheKeys |-> NoSession]
  /\ handles = << >>
  /\ configCache = PyNone
  /\ sources \in sourceSets
  /\ installs = 0
  /\ first = PyNone
  /\ log = << >>

ValidateInit == LoaderInit(ConfigSourceSets)

ValidateNext ==
  \E t \in Threads :
    \/ CallDefaultWorker(t)
    \/ LoadCheck(t)
    \/ LoadRead(t)
    \/ LoadInstall(t)
    \/ LoadReturn(t)

ValidateSpec == ValidateInit /\ [][ValidateNext]_vars

(***************************************************************************)
(* The callers of _config.py on the documents that differ in how a worker  *)
(* name resolves.                                                          *)
(***************************************************************************)
ResolveWorkers ==
  PyDict(("a" :> PyDict([host |-> PyStr("h"), port |-> PyInt(1000)]))
         @@ ("b" :> PyDict(EmptyMap))
         @@ ("" :> PyDict([host |-> PyStr("e")])))

\* workers a and b, with a the default
DocNamed ==
  MakeDoc(PyDict([a |-> PyDict([host |-> PyStr("h"), port |-> PyInt(1000)]),
                  b |-> PyDict(EmptyMap)]), PyStr("a"), Absent)

\* no default_worker, null, a worker's name, and the worker whose name is empty;
\* and a configuration in which no worker has the empty name
ResolveSourceSets ==
  {{MakeDoc(ResolveWorkers, d, Absent)} : d \in {Absent, PyNone, PyStr("a"), PyStr("")}}
  \cup {{DocNamed}}

ResolveInit == LoaderInit(ResolveSourceSets)

ResolveNext ==
  \E t \in Threads :
    \/ CallGetWorkerConfig(t)
    \/ CallWorkerNames(t)
    \/ CallDefaultWorker(t)
    \/ LoadCheck(t)
    \/ LoadRead(t)
    \/ LoadInstall(t)
    \/ LoadReturn(t)

ResolveSpec == ResolveInit /\ [][ResolveNext]_vars

(***************************************************************************)
(* The session cache on one configuration per run, each with a default     *)
(* worker.                                                                 *)
(***************************************************************************)
BuildInit == LoaderInit(BuildSourceSets)

BuildSpec == BuildInit /\ [][Next]_vars

(***************************************************************************)
(* The session cache on configurations whose worker names meet the cache's *)
(* sentinel, with callers that also pass the empty name.                   *)
(***************************************************************************)
SentinelInit == LoaderInit(SentinelSourceSets)

SentinelNext ==
  \/ Next
  \/ \E t \in Threads : CallGetSessionEmpty(t)

SentinelSpec == SentinelInit /\ [][SentinelNext]_vars

(***************************************************************************)
(* Calls whose steps all terminate: a thread inside a call goes on when it *)
(* can (is_alive(), the file reads and Session(...) return or raise, and   *)
(* a thread waiting for the lock gets it once it stays free).  Whether a   *)
(* call is made at all, and whether a session dies, is left open.          *)
(***************************************************************************)
Progress(t) ==
  \/ Acquire(t)
  \/ Probe(t)
  \/ LoadCheck(t)
  \/ LoadRead(t)
  \/ LoadInstall(t)
  \/ LoadReturn(t)
  \/ LoadCerts(t)
  \/ OpenSession(t)
  \/ OpenFails(t)

LiveSpec == Init /\ [][Next]_vars /\ \A t \in Threads : WF_vars(Progress(t))

(***************************************************************************)
(* Properties.                                                             *)
(***************************************************************************)
\* the sessions opened for a cache key
HandlesOf(key) == {h \in 1..Len(handles) : handles[h].key = key}

\* the last call to end was get_session on this key, and it returned a session
LastSessionFor(key) ==
  last.kind \in SessionKinds /\ CacheKey(last.arg) = key

\* thread t runs get_session and is past the lookup of line 54
InCritical(t) == op[t] = "get_session" /\ pc[t] \notin {"new", "lock", "done"}

\* C1: for a key whose sessions all stay alive, whatever the number and the
\* interleaving of its callers, one session is opened and every get_session
\* call on the key returns that session.
C1_OneBuildPerKey ==
  \A key \in CacheKeys :
    (\A h \in HandlesOf(key) : handles[h].status = "alive") =>
      /\ Cardinality(HandlesOf(key)) <= 1
      /\ LastSessionFor(key) => last.val \in HandlesOf(key)

\* a caller found the session another caller built, while a third waits for the lock
C1_Witness ==
  \E t, u \in Threads :
    /\ t # u /\ pc[t] = "lock" /\ pc[u] = "probe"
    /\ CacheKey(arg[t]) = CacheKey(arg[u])
    /\ Len(handles) = 1 /\ handles[1].status = "alive"
    /\ handles[1].key = CacheKey(arg[u])
    /\ session[u] = 1
    /\ LastSessionFor(handles[1].key) /\ last.val = 1

\* C2: a get_session call whose probe of the cached session reports alive returns
\* that session at once, the one the previous call on the key returned, and opens
\* no session and does not consult the configuration.
C2_AliveIsReused ==
  [][\A t \in Threads :
       (pc[t] = "probe" /\ pc'[t] # "probe" /\ handles[session[t]].status = "alive") =>
         /\ pc'[t] = "done"
         /\ last'.kind = "session_cached" /\ last'.val = session[t]
         /\ LastSessionFor(CacheKey(arg[t])) => last'.val = last.val
         /\ handles' = handles /\ cache' = cache
         /\ UNCHANGED configState]_vars

\* the second of two calls on a key has returned the session the first built
C2_Witness ==
  /\ last.kind = "session_cached" /\ last.val = 1
  /\ Len(handles) = 1 /\ handles[1].key = CacheKey(last.arg)
  /\ NoCallRunning

\* C3: a get_session call that finds the cached session not alive goes on to
\* rebuild, and when its build succeeds the new session differs from the stale
\* one, replaces it under the key and is returned.
C3_StaleIsRebuilt ==
  [][\A t \in Threads :
       /\ (pc[t] = "probe" /\ pc'[t] # "probe" /\ handles[session[t]].status # "alive") =>
            (pc'[t] = "load_check" /\ cache' = cache)
       /\ (pc[t] = "open" /\ pc'[t] = "done" /\ last'.kind # "error"
             /\ session[t] # NoSession) =>
            /\ Len(handles') = Len(handles) + 1
            /\ last'.kind = "session_created" /\ last'.val = Len(handles')
            /\ last'.val # session[t]
            /\ handles[session[t]].status = "stale"
            /\ cache[CacheKey(arg[t])] = session[t]
            /\ cache'[CacheKey(arg[t])] = last'.val
            /\ handles'[last'.val].status = "alive"]_vars

\* a stale session has been replaced under its key by a newly built one
C3_Witness ==
  /\ last.kind = "session_created" /\ last.val = 2
  /\ Len(handles) = 2 /\ handles[1].key = handles[2].key
  /\ handles[1].status = "stale"
  /\ cache[handles[2].key] = 2

\* C4 as claimed: after get_session fails in Session(...), the cache holds no entry
\* for the key, whatever it held before.
C4_FailedBuildLeavesKeyAbsent ==
  (last.kind = "error" /\ last.val = "Exception:session") =>
    cache[CacheKey(last.arg)] = NoSession

\* C4, amended: when Session(...) fails the error reaches the caller and the cache
\* is as it was before the call: the key is still absent, or still holds the
\* session this call found not alive, so the next call on the key rebuilds.
C4_FailedBuildKeepsCache ==
  [][\A t \in Threads :
       (pc[t] = "open" /\ pc'[t] = "done" /\ last'.kind = "error") =>
         /\ last'.val = "Exception:session" /\ last'.op = "get_session"
         /\ cache' = cache /\ handles' = handles
         /\ cache[CacheKey(arg[t])] = session[t]
         /\ session[t] # NoSession => handles[session[t]].status = "stale"]_vars

\* a rebuild failed in Session(...) and the stale session is still cached
C4_Witness ==
  /\ last.kind = "error" /\ last.val = "Exception:session"
  /\ cache[CacheKey(last.arg)] # NoSession
  /\ handles[cache[CacheKey(last.arg)]].status = "stale"

\* C5: the critical sections of get_session never overlap; a key gets a new
\* session only after its previous one was found not alive, the cache holds the
\* newest session of the key, and callers get that one.
C5_RebuildsSerialized ==
  /\ Cardinality({t \in Threads : InCritical(t)}) <= 1
  /\ \A t \in Threads : InCritical(t) => lock = t
  /\ \A key \in CacheKeys :
       /\ \A h1, h2 \in HandlesOf(key) : h1 < h2 => handles[h1].status = "stale"
       /\ \A h \in HandlesOf(key) : cache[key] >= h
       /\ cache[key] # NoSession => cache[key] \in HandlesOf(key)
       /\ LastSessionFor(key) /\ handles[cache[key]].status = "alive" =>
            last.val = cache[key]

\* a caller got the rebuilt session of a key whose first session had died
C5_Witness ==
  /\ Len(handles) = 2 /\ handles[1].key = handles[2].key
  /\ handles[1].status = "stale" /\ handles[2].status = "alive"
  /\ last.kind = "session_cached" /\ last.val = 2
  /\ cache[handles[2].key] = 2

\* what get_session may raise: from the configuration, a certificate file or Session
SessionErrors ==
  {"RuntimeError:source", "ValueError", "TypeError", "RuntimeError:workers",
   "RuntimeError:no_name", "RuntimeError:not_found", "OSError:certificate",
   "Exception:session"}

\* C6: a probe that answers False or raises is not an error of the call:
\* get_session goes on to rebuild, still holding the lock, and what it may raise
\* comes from the configuration lookup, a certificate file or Session(...).
C6_ProbeNeverFatal ==
  [][/\ \A t \in Threads :
          (pc[t] = "probe" /\ pc'[t] # "probe"
             /\ handles[session[t]].status # "alive") =>
            (pc'[t] = "load_check" /\ last' = last /\ lock' = t)
     /\ (last'.kind = "error" /\ last'.op = "get_session") =>
          last'.val \in SessionErrors]_vars

\* a call is rebuilding after its probe found the cached session not alive
C6_Witness ==
  \E t \in Threads :
    /\ pc[t] = "open" /\ session[t] # NoSession
    /\ handles[session[t]].status = "stale"

\* the key holds a session found not alive and no get_session call is on the key
StaleAtRest(key) ==
  /\ cache[key] # NoSession
  /\ handles[cache[key]].status = "stale"
  /\ \A t \in Threads : ~(InCritical(t) /\ CacheKey(arg[t]) = key)

\* C7 as claimed: a session found not alive is in the cache only while a
\* get_session call on its key is rebuilding.
C7_StaleOnlyWhileRebuilding == \A key \in CacheKeys : ~StaleAtRest(key)

\* C7, amended: Absent, Live and Stale are the rest states. A key comes to rest on
\* a session found not alive exactly when the call rebuilding it raises, and an
\* entry only ever changes to a session just opened, replacing nothing or a
\* session found not alive.
C7_StaleUntilRebuilt ==
  [][\A key \in CacheKeys :
       /\ (StaleAtRest(key)' /\ ~StaleAtRest(key)) =>
            /\ last'.kind = "error" /\ last'.op = "get_session"
            /\ CacheKey(last'.arg) = key
            /\ cache' = cache
       /\ cache'[key] # cache[key] =>
            /\ cache'[key] = Len(handles') /\ Len(handles') = Len(handles) + 1
            /\ handles'[cache'[key]].status = "alive"
            /\ cache[key] # NoSession => handles[cache[key]].status = "stale"]_vars

\* a key rests on a session found not alive, after the call on it raised
C7_Witness ==
  \E key \in CacheKeys :
    /\ StaleAtRest(key)
    /\ last.kind = "error" /\ CacheKey(last.arg) = key
    /\ NoCallRunning

\* C8 as claimed: whatever the callers and their interleaving, _CONFIG_CACHE is
\* assigned at most once, and it stays the registry first loaded.
C8_LoadedAtMostOnce ==
  /\ installs <= 1
  /\ ~IsNone(configCache) => configCache = first

\* C9: once _CONFIG_CACHE is set, calls made in sequence do not read the source,
\* leave the cache as it is, and return the registry first loaded.
C9_MemoizedInSequence ==
  [][~IsNone(configCache) =>
       /\ configCache = first /\ configCache' = configCache
       /\ \A t \in Threads :
            /\ ~(pc[t] = "load_read" /\ pc'[t] # "load_read")
            /\ (pc[t] = "load_check" /\ pc'[t] # "load_check") => pc'[t] = "load_ret"
            /\ (pc[t] = "load_ret" /\ pc'[t] = "done" /\ last'.kind = "names") =>
                 last'.val = DOMAIN DictGet(first, "workers").v]_vars

\* deephaven_worker_names returned after an earlier call had loaded the registry
C9_Witness ==
  /\ NoCallRunning /\ installs = 1
  /\ Len(handles) = 1 /\ last.kind = "names"

\* the configurations C10 says are rejected
C10Rejected(doc) ==
  \/ \E key \in DOMAIN doc.v : key \notin {"workers", "default_worker"}
  \/ "workers" \notin DOMAIN doc.v
  \/ doc.v["workers"].k # "obj"
  \/ DOMAIN doc.v["workers"].v = {}
  \/ \E w \in DOMAIN doc.v["workers"].v :
       \/ doc.v["workers"].v[w].k # "obj"
       \/ \E field \in DOMAIN doc.v["workers"].v[w].v :
            field \notin DOMAIN _ALLOWED_WORKER_FIELDS

\* C10 as claimed: on such a configuration every load fails with the validation
\* error (ValueError) and caches nothing; on {"workers": {"a": {}}} none fails.
C10_InvalidConfigsRejected ==
  \A doc \in sources :
    /\ (sources = {doc} /\ IsDict(doc) /\ C10Rejected(doc)) =>
         /\ IsNone(configCache)
         /\ last.kind # "none" => (last.kind = "error" /\ last.val = "ValueError")
    /\ (sources = {doc} /\ doc = DocMinimal) => last.kind # "error"

\* the types of the worker fields as the schema writes them (lines 41-52)
C11Declared ==
  [host |-> {"str"}, port |-> {"int"}, auth_type |-> {"str"}, auth_token |-> {"str"},
   never_timeout |-> {"bool"}, session_type |-> {"str"}, use_tls |-> {"bool"},
   tls_root_certs |-> {"str", "null"}, client_cert_chain |-> {"str", "null"},
   client_private_key |-> {"str", "null"}]

\* the document has one worker, whose one field holds a value of another kind
C11Mismatch(doc) ==
  /\ doc \in TypedDocs
  /\ \E field \in DOMAIN doc.v["workers"].v["a"].v :
       /\ field \in DOMAIN C11Declared
       /\ doc.v["workers"].v["a"].v[field].k \notin C11Declared[field]

\* C11 as claimed: a worker field holding a value whose kind is not the field's
\* declared type (a boolean in port, an integer in a boolean field, null outside
\* the certificate fields) makes every load fail with the validation error.
C11_TypeMismatchRejected ==
  \A doc \in sources :
    (sources = {doc} /\ C11Mismatch(doc)) =>
      /\ IsNone(configCache)
      /\ last.kind # "none" => (last.kind = "error" /\ last.val = "ValueError")

\* the document names a default_worker that is not a key of its workers
C12DanglingDefault(doc) ==
  /\ IsDict(doc)
  /\ ~IsNone(DictGet(doc, "default_worker"))
  /\ IsDict(DictGet(doc, "workers"))
  /\ ~KeyIn(DictGet(doc, "default_worker"), DictGet(doc, "workers"))

C13_NoneResolvesToDefault ==
  \A doc \in sources :
    (sources = {doc} /\ last.kind # "none"
       /\ last.op = "get_worker_config" /\ IsNone(last.arg)) =>
      IF IsNone(DictGet(doc, "default_worker"))
      THEN last.kind = "error" /\ last.val = "RuntimeError:no_name"
      ELSE /\ last.kind = "worker"
           /\ last.val = DictGet(doc, "workers").v[DictGet(doc, "default_worker").v]

\* the Session arguments of the end-to-end configuration's worker w1
C14Expected ==
  [host |-> PyStr("h"), port |-> PyInt(1000), auth_type |-> PyNone,
   auth_token |-> PyNone, never_timeout |-> PyBool(FALSE),
   session_type |-> PyStr("python"), use_tls |-> PyBool(FALSE),
   tls_root_certs |-> PyNone, client_cert_chain |-> PyNone,
   client_private_key |-> PyNone]

MsgValues(m) ==
  UNION {IF IsDict(m.args[i])
         THEN {m.args[i].v[field] : field \in DOMAIN m.args[i].v}
         ELSE {m.args[i]} : i \in 1..Len(m.args)}

\* what must not be logged: the worker's auth_token and the bytes of its files
C15Secrets(worker_cfg) ==
  (IF "auth_token" \in DOMAIN worker_cfg.v THEN {worker_cfg.v["auth_token"]} ELSE {})
  \cup {FileBytes(worker_cfg.v[field].v) :
          field \in {f \in DOMAIN worker_cfg.v :
                       /\ f \in {CertFields[i] : i \in 1..Len(CertFields)}
                       /\ Truthy(worker_cfg.v[f])}}

\* no message of the log shows a secret of this worker, and a logged dict shows
\* the token and certificate fields as the redaction marker
C15Clean(messages, worker_cfg) ==
  \A i \in 1..Len(messages) :
    /\ MsgValues(messages[i]) \cap C15Secrets(worker_cfg) = {}
    /\ \A j \in 1..Len(messages[i].args) :
         IsDict(messages[i].args[j]) =>
           \A field \in DOMAIN messages[i].args[j].v
                          \cap {"auth_token", "tls_root_certs", "client_cert_chain",
                                "client_private_key"} :
             messages[i].args[j].v[field] = PyStr("<redacted>")

\* C15: the messages logged while a session is built, those of the certificate
\* loading and of its failure included, show neither the worker's auth_token nor
\* the bytes of its certificate and key files; the logged configuration shows
\* these fields as "<redacted>".
C15_NoSecretInLog ==
  [][\A t \in Threads :
       (pc[t] \in {"certs", "open"} /\ pc'[t] # pc[t]) => C15Clean(log', cfg[t])]_vars

\* the configuration of a worker with a token and certificate files has been logged
C15_Witness ==
  \E t \in Threads :
    /\ pc[t] = "open" /\ cfg[t] = W1Tls
    /\ Len(log) = 6
    /\ log[6].args[1].v["auth_token"] = PyStr("<redacted>")
    /\ log[6].args[1].v["host"] = PyStr("h")

\* C16 as claimed: once _CONFIG_CACHE holds a registry no call changes it,
\* whether the call returns or raises: it stays the registry first loaded.
C16_RegistryNeverChanges ==
  [][~IsNone(configCache) => (configCache' = configCache /\ configCache = first)]_vars

\* the log ends with the failure to read a file named by a certificate field
C17FailureLogged(messages, worker_cfg) ==
  /\ Len(messages) > 0
  /\ messages[Len(messages)].text = "Failed to load certificate/key file: {}: {}"
  /\ \E i \in 1..Len(CertFields) :
       /\ CertFields[i] \in DOMAIN worker_cfg.v
       /\ worker_cfg.v[CertFields[i]] = messages[Len(messages)].args[1]

\* C17: when a certificate file of the resolved worker cannot be read,
\* get_session raises the certificate error before Session(...) is called, and
\* the cache is as before the call: no entry is added, and the session found not
\* alive, if any, is still cached.  A worker without certificate paths never
\* fails there.
C17_CertFailureKeepsCache ==
  [][\A t \in Threads :
       (pc[t] = "certs" /\ pc'[t] # "certs") =>
         /\ handles' = handles /\ cache' = cache
         /\ cache[CacheKey(arg[t])] = session[t]
         /\ IF C17FailureLogged(log', cfg[t])
            THEN /\ pc'[t] = "done" /\ last'.kind = "error"
                 /\ last'.val = "OSError:certificate" /\ last'.op = "get_session"
                 /\ lock' = Unlocked
            ELSE pc'[t] = "open" /\ last' = last]_vars

\* a rebuild failed on a certificate file and the stale session is still cached
C17_Witness ==
  /\ last.kind = "error" /\ last.val = "OSError:certificate"
  /\ cache[CacheKey(last.arg)] # NoSession
  /\ handles[cache[CacheKey(last.arg)]].status = "stale"
  /\ C17FailureLogged(log, W1Tls)

\* C18: a session that is built is opened with the values the resolved worker
\* configures, as they are; a certificate field holding a path is passed as the
\* bytes of that file, not as the path, and one that is missing or null as None.
C18_SessionArguments ==
  [][\A doc \in sources : \A t \in Threads :
       (sources = {doc} /\ pc[t] = "open" /\ pc'[t] = "done"
          /\ last'.kind = "session_created") =>
         /\ cfg[t] = get_worker_config(doc, arg[t])
         /\ \A field \in DOMAIN cfg[t].v \ {CertFields[i] : i \in 1..Len(CertFields)} :
              handles'[last'.val].kwargs[field] = cfg[t].v[field]
         /\ \A i \in 1..Len(CertFields) :
              handles'[last'.val].kwargs[CertFields[i]] =
                IF CertFields[i] \notin DOMAIN cfg[t].v THEN PyNone
                ELSE IF cfg[t].v[CertFields[i]] \in {PyNone, PyStr("")}
                  THEN cfg[t].v[CertFields[i]]
                ELSE FileBytes(cfg[t].v[CertFields[i]].v)
         /\ \A i \in 1..Len(CertFields) :
              handles'[last'.val].kwargs[CertFields[i]].k \in {"bytes", "null"}
                \/ handles'[last'.val].kwargs[CertFields[i]] = PyStr("")]_vars

\* a session was opened with the bytes of the root certificates and the token
C18_Witness ==
  /\ sources = {DocCerts}
  /\ last.kind = "session_created"
  /\ handles[last.val].kwargs.tls_root_certs = FileBytes("/ca.pem")
  /\ handles[last.val].kwargs.client_cert_chain = PyNone
  /\ handles[last.val].kwargs.auth_token = PyStr("tok")
  /\ handles[last.val].kwargs.never_timeout = PyBool(TRUE)

\* C19 as claimed: a call that names a worker that is not a key of workers,
\* whatever string the name is, raises the resolution error for an unknown
\* worker, whether or not the registry sets a default_worker.
C19_UnknownNameNeverDefaults ==
  \A doc \in sources :
    (sources = {doc} /\ last.kind # "none"
       /\ last.op \in {"get_worker_config", "get_session"}
       /\ ~IsNone(last.arg) /\ ~KeyIn(last.arg, DictGet(doc, "workers"))) =>
      (last.kind = "error" /\ last.val = "RuntimeError:not_found")

\* C20: a get_session call calls Session(...) at most once: it reaches the call
\* only from the certificate step, and leaves it by returning the new session or
\* by raising the error of Session(...) to its caller; a call that has ended
\* does nothing more.
C20_NoRetry ==
  [][\A t \in Threads :
       /\ (pc[t] = "open" /\ pc'[t] # "open") =>
            /\ pc'[t] = "done" /\ last'.op = "get_session"
            /\ \/ /\ last'.kind = "session_created"
                  /\ Len(handles') = Len(handles) + 1
               \/ /\ last'.kind = "error" /\ last'.val = "Exception:session"
                  /\ handles' = handles
       /\ (pc'[t] = "open" /\ pc[t] # "open") => pc[t] = "certs"
       /\ pc[t] = "done" => pc'[t] = "done"
       /\ Len(handles') <= Len(handles) + 1]_vars

\* the only call so far failed in Session(...), and no session was opened
C20_Witness ==
  /\ last.kind = "error" /\ last.val = "Exception:session"
  /\ handles = << >>
  /\ pc[1] = "done" /\ \A t \in Threads : t # 1 => pc[t] = "new"

\* C21: get_session closes no session: every session ever opened stays as the
\* environment left it (alive, dead, or found not alive), none is closed or
\* forgotten, and replacing a stale entry only changes what the cache maps to.
C21_NeverClosed ==
  [][/\ Len(handles') >= Len(handles)
     /\ \A h \in 1..Len(handles) :
          /\ handles'[h].status # "closed"
          /\ handles'[h].key = handles[h].key
          /\ handles'[h].kwargs = handles[h].kwargs
          /\ handles[h].status = "alive" => handles'[h].status \in {"alive", "dead"}
          /\ handles[h].status \in {"dead", "stale"} => handles'[h].status \in {"dead", "stale"}]_vars

\* a key was rebuilt twice: its two earlier sessions are out of the cache, unclosed
C21_Witness ==
  /\ Len(handles) = 3
  /\ handles[1].key = handles[3].key /\ handles[2].key = handles[3].key
  /\ handles[1].status = "stale" /\ handles[2].status = "stale"
  /\ cache[handles[3].key] = 3

\* C22: no entry of the session cache is ever removed: a key that is present
\* stays present, its session only ever replaced by one opened later, so the
\* set of cached keys only grows.
C22_KeysNeverEvicted ==
  [][/\ \A key \in CacheKeys :
          cache[key] # NoSession =>
            (cache'[key] # NoSession /\ cache'[key] >= cache[key])
     /\ {key \in CacheKeys : cache[key] # NoSession}
          \subseteq {key \in CacheKeys : cache'[key] # NoSession}]_vars

\* two keys are cached, and the call that found one of them stale has raised
C22_Witness ==
  /\ Cardinality({key \in CacheKeys : cache[key] # NoSession}) = 2
  /\ NoCallRunning
  /\ last.kind = "error" /\ last.op = "get_session"
  /\ cache[CacheKey(last.arg)] # NoSession

\* the worker a name stands for: the name itself, default_worker when no name is
\* given; an error record when that is no key of workers
C23Worker(doc, name) ==
  LET wanted == IF IsNone(name) THEN DictGet(doc, "default_worker") ELSE name
  IN  IF KeyIn(wanted, DictGet(doc, "workers"))
      THEN DictGet(doc, "workers").v[wanted.v]
      ELSE [k |-> "error"]

\* C23 as claimed: every session get_session(name) returns, cached or new, was
\* opened with the parameters of the worker the name stands for, also when a
\* worker is named "__default__" and when the name is the empty string.
C23_HandleMatchesName ==
  \A doc \in sources :
    (sources = {doc} /\ last.kind \in SessionKinds) =>
      /\ C23Worker(doc, last.arg).k # "error"
      /\ handles[last.val].kwargs = SessionKwargs(C23Worker(doc, last.arg))

\* C24: when the probe, the file reads and Session(...) terminate, every call
\* that was started ends, by return or by exception, and a thread outside a call
\* does not hold the lock: whatever way the call ended, waiting callers go on.
C24_CallsEndLockFree ==
  /\ \A t \in Threads : (pc[t] \notin {"new", "done"}) ~> (pc[t] = "done")
  /\ [](\A t \in Threads : pc[t] \in {"new", "done"} => lock # t)
  /\ [](NoCallRunning => lock = Unlocked)

\* a caller waits for the lock while another call, past a failed one, builds
C24_Witness ==
  \E t, u \in Threads :
    /\ pc[t] = "lock" /\ pc[u] = "open" /\ lock = u
    /\ last.kind = "error" /\ last.op = "get_session"

C26_FailedLoadCachesNothing ==
  [][/\ installs = 0 => IsNone(configCache)
     /\ \A t \in Threads :
          /\ (pc[t] \in {"load_read", "load_install"} /\ pc'[t] = "done") =>
               /\ last'.kind = "error"
               /\ last'.val \in {"RuntimeError:source", "ValueError", "TypeError"}
               /\ UNCHANGED configState
          /\ (pc[t] = "load_check" /\ pc'[t] # "load_check" /\ IsNone(configCache)) =>
               pc'[t] = "load_read"
          /\ (pc[t] = "load_read" /\ pc'[t] = "load_install") => config'[t] \in sources
          /\ (pc[t] = "load_install" /\ pc'[t] # "load_install"
                /\ ValidateConfig(config[t]) = "") =>
               (pc'[t] = "load_ret" /\ configCache' = config[t])]_vars

\* the first load failed on the source, and the second has read and cached it
C26_Witness ==
  /\ last.kind = "error" /\ last.val = "RuntimeError:source"
  /\ pc[1] = "done" /\ pc[2] = "load_ret" /\ pc[3] = "new"
  /\ installs = 1 /\ configCache = DocMinimal

\* C27 as claimed: with d the configured default_worker, get_session(None) and
\* get_session(d) use two cache keys, so once both are cached the cache holds two
\* distinct sessions, each opened with the parameters of worker d.
C27_DefaultHasTwoEntries ==
  \A doc \in sources :
    (sources = {doc} /\ DictGet(doc, "default_worker").k = "str") =>
      LET d == DictGet(doc, "default_worker")
          byNone == cache[CacheKey(PyNone)]
          byName == cache[CacheKey(d)]
      IN  (byNone # NoSession /\ byName # NoSession) =>
            /\ byNone # byName
            /\ handles[byNone].kwargs = SessionKwargs(DictGet(doc, "workers").v[d.v])
            /\ handles[byName].kwargs = SessionKwargs(DictGet(doc, "workers").v[d.v])

====
